---- MODULE Spec2Model ----
(***************************************************************************)
(* Model of menus/base.py (NavigationNode tree helpers) and menus/utils.py *)
(* (set_language_changer, language_changer_decorator,                      *)
(* DefaultLanguageChanger, static_stringifier).                            *)
(*                                                                         *)
(* Four specifications share the module, one per component:                *)
(*   Spec            DefaultLanguageChanger on one request                 *)
(*   SpecTree        NavigationNode.get_descendants / get_ancestors        *)
(*   SpecDecorator   set_language_changer / language_changer_decorator     *)
(*   SpecStringifier static_stringifier around reverse()                   *)
(* Each leaves the variables of the other components at their initial      *)
(* value.                                                                  *)
(*                                                                         *)
(* Strings that the code slices or concatenates (URLs, path_info) are      *)
(* sequences of one-character strings, so len(), [n:] and '%s%s' are the   *)
(* operations of the code and not identities.                              *)
(***************************************************************************)
EXTENDS Integers, Sequences, FiniteSets, TLC

VARIABLES
    req,        \* the request and what the host framework answers for it
    app_path,   \* DefaultLanguageChanger._app_path: [set, val]
    last,       \* the last __call__: [called, lang, out, trace]
    parent,     \* NavigationNode.parent of every node (None is 0)
    children,   \* NavigationNode.children of every node
    op,         \* the tree operation in progress: [pc, node, cur, nodes]
    language_changer,  \* request._language_changer ("unset": no such attribute)
    wrapped,    \* the call of a decorated view: [pc, deco, given, passed, at_entry, vret, ret]
    sets,       \* the functions given to set_language_changer so far, in order
    classes,    \* per class: [unicode, original]: its __unicode__ and _original
    sview,      \* the ResolverMatch given to static_stringifier: [args, kwargs]
    block       \* the with block: [pc, django16, before]

changerVars == <<req, app_path, last>>

treeVars == <<parent, children, op>>

decoVars == <<language_changer, wrapped, sets>>

strVars == <<classes, sview, block>>

vars == <<req, app_path, last, parent, children, op, language_changer, wrapped, sets,
          classes, sview, block>>

-----------------------------------------------------------------------------
(* Values *)

Langs == {"e", "d"}

\* settings.LANGUAGE_CODE
LANGUAGE_CODE == "e"

\* '/%s/' % lang  (utils.py:75, utils.py:78)
LangRoot(lang) == <<"/", lang, "/">>

\* "/"  (utils.py:79)
SiteRoot == <<"/">>

\* url_names excluded from view reversal (utils.py:94)
PageViewNames == {"pages-details-by-slug", "pages-root"}

Ok(u) == [kind |-> "url", url |-> u, exc |-> "none"]

Raise(e) == [kind |-> "raise", url |-> <<>>, exc |-> e]

Step(s, lang) == [step |-> s, lang |-> lang]

\* Python's s[n:]: the empty string when n >= len(s)
DropFirst(s, n) == IF n >= Len(s) THEN <<>> ELSE SubSeq(s, n + 1, Len(s))

-----------------------------------------------------------------------------
(* The host framework's answers for one request.  They are inputs: the     *)
(* page model, the URL resolver and the settings are not part of menus/.   *)

\* page.get_absolute_url(language=lang, fallback=False) when the translation exists
PageUrl(lang) == IF lang = "e" THEN <<"/", "e", "/", "p", "/">>
                 ELSE <<"/", lang, "/", "q", "q", "/">>

\* page.get_absolute_url(language=lang, fallback=True) when only another
\* language's title exists: that title's slug below the prefix of lang
FallbackUrl(lang) == IF lang = "e" THEN <<"/", "e", "/", "q", "q", "/">>
                     ELSE <<"/", lang, "/", "p", "/">>

\* request.toolbar.obj.get_absolute_url() while lang is the active language
ToolbarUrl(lang) == <<"/", lang, "/", "t", "/">>

\* reverse(view_name, ...) while lang is the active language
ReverseUrl(lang) == <<"/", lang, "/", "v", "/">>

\* the language prefix of the requested URL
UrlLang == "e"

\* what follows the page's (or the view's) own URL in the requested path
Rests == { <<>>, <<"x", "/">> }

\* resolve(request.path_info): no match, or a ResolverMatch (url_name, namespace)
\* Its args and kwargs are captured strings here; a view whose arguments hold
\* class objects, which static_stringifier patches, is the subject of
\* SpecStringifier.
Views == { [found |-> FALSE, url_name |-> "", namespace |-> ""],
           [found |-> TRUE, url_name |-> "pages-details-by-slug", namespace |-> ""],
           [found |-> TRUE, url_name |-> "pages-root", namespace |-> ""],
           [found |-> TRUE, url_name |-> "app", namespace |-> ""],
           [found |-> TRUE, url_name |-> "app", namespace |-> "ns"] }

AllOk == [l \in Langs |-> "ok"]

Requests ==
    { r \in [ USE_I18N      : BOOLEAN,
              lang          : Langs,       \* get_language_from_request(request)
              rest          : Rests,       \* see PathInfo
              has_page      : BOOLEAN,     \* request.current_page is not None
              nofb          : [Langs -> {"ok", "DoesNotExist", "NoReverseMatch"}],
              fb            : [Langs -> {"ok", "DoesNotExist", "NoReverseMatch"}],
              hide          : [Langs -> BOOLEAN],   \* hide_untranslated(lang)
              toolbar       : {"absent", "empty", "obj"},
              tb            : [Langs -> {"ok", "raise"}],
              view          : Views,
              rev           : [Langs -> {"ok", "NoReverseMatch"}] ] :
        \* no page: no page lookups to answer
        /\ ~r.has_page => (r.nofb = AllOk /\ r.fb = AllOk)
        \* with fallback a present translation is returned as without; an
        \* absent one stays absent for the same reason when no fallback exists
        /\ \A l \in Langs : r.fb[l] \in {"ok", r.nofb[l]}
        \* no toolbar object: no get_absolute_url to answer
        /\ r.toolbar # "obj" => r.tb = AllOk
        \* no matched view: nothing to reverse
        /\ ~r.view.found => r.rev = AllOk }

\* request.path_info: the URL under which the framework found the current
\* page (its own in the language of the URL, or that of its fallback title),
\* or else the URL of the matched view, and what follows it
PathInfo(r) ==
    ( IF r.has_page
      THEN IF r.nofb[UrlLang] = "ok" THEN PageUrl(UrlLang) ELSE FallbackUrl(UrlLang)
      ELSE ReverseUrl(UrlLang) ) \o r.rest

\* page.get_absolute_url(language=lang, fallback=False)  (utils.py:72)
PageNoFallback(r, lang) ==
    IF r.nofb[lang] = "ok" THEN Ok(PageUrl(lang)) ELSE Raise(r.nofb[lang])

\* page.get_absolute_url(language=lang, fallback=True)  (utils.py:76)
PageWithFallback(r, lang) ==
    IF r.nofb[lang] = "ok" THEN Ok(PageUrl(lang))
    ELSE IF r.fb[lang] = "ok" THEN Ok(FallbackUrl(lang))
    ELSE Raise(r.fb[lang])

\* self.request.toolbar.obj.get_absolute_url() under force_language(active)
ToolbarObjUrl(r, active) ==
    IF r.tb[active] = "ok" THEN Ok(ToolbarUrl(active)) ELSE Raise("Exception")

\* reverse(view_name, args=..., kwargs=..., current_app=...) under force_language(active)
Reverse(r, view_name, active) ==
    IF r.rev[active] = "ok" THEN Ok(ReverseUrl(active)) ELSE Raise("NoReverseMatch")

-----------------------------------------------------------------------------
(* DefaultLanguageChanger *)

\* get_page_path with hide_untranslated consulted before the page is asked
get_page_path_hide_first(r, lang) ==
    IF r.has_page
    THEN IF r.hide[lang] /\ r.USE_I18N
         THEN [out |-> Ok(LangRoot(lang)), trace |-> <<Step("root", lang)>>]
         ELSE LET first == PageNoFallback(r, lang)
                  t1    == <<Step("page", lang)>>
              IN  IF first.kind = "url"
                  THEN [out |-> first, trace |-> t1]
                  ELSE [out |-> PageWithFallback(r, lang),
                        trace |-> Append(t1, Step("page_fallback", lang))]
    ELSE IF r.USE_I18N
         THEN [out |-> Ok(LangRoot(lang)), trace |-> <<Step("root", lang)>>]
         ELSE [out |-> Ok(SiteRoot), trace |-> <<Step("root", lang)>>]

\* get_page_path with the hide_untranslated test left out
get_page_path_no_hide(r, lang) ==
    IF r.has_page
    THEN LET first == PageNoFallback(r, lang)
             t1    == <<Step("page", lang)>>
         IN  IF first.kind = "url"
             THEN [out |-> first, trace |-> t1]
             ELSE [out |-> PageWithFallback(r, lang),
                   trace |-> Append(t1, Step("page_fallback", lang))]
    ELSE IF r.USE_I18N
         THEN [out |-> Ok(LangRoot(lang)), trace |-> <<Step("root", lang)>>]
         ELSE [out |-> Ok(SiteRoot), trace |-> <<Step("root", lang)>>]

\* get_page_path(lang): [out, trace]
get_page_path(r, lang) ==
    IF r.has_page
    THEN LET first == PageNoFallback(r, lang)
             t1    == <<Step("page", lang)>>
         IN  IF first.kind = "url"
             THEN [out |-> first, trace |-> t1]
             ELSE \* except (Title.DoesNotExist, NoReverseMatch)
                  IF r.hide[lang] /\ r.USE_I18N
                  THEN [out |-> Ok(LangRoot(lang)), trace |-> Append(t1, Step("root", lang))]
                  ELSE [out |-> PageWithFallback(r, lang),
                        trace |-> Append(t1, Step("page_fallback", lang))]
    ELSE IF r.USE_I18N
         THEN [out |-> Ok(LangRoot(lang)), trace |-> <<Step("root", lang)>>]
         ELSE [out |-> Ok(SiteRoot), trace |-> <<Step("root", lang)>>]

\* language_code of the app_path property (utils.py:60-61)
LanguageCode(r) == IF r.USE_I18N THEN r.lang ELSE LANGUAGE_CODE

\* self.app_path[len(page_path):]  (utils.py:64)
Residual(path_info, page_path) == DropFirst(path_info, Len(page_path))

\* the app_path property: [out, cache, trace]; cache is _app_path afterwards
AppPath(r, cache) ==
    IF cache.set
    THEN [out |-> Ok(cache.val), cache |-> cache, trace |-> <<>>]
    ELSE LET started == [set |-> TRUE, val |-> PathInfo(r)]   \* utils.py:58
             pp      == get_page_path(r, LanguageCode(r))
         IN  IF pp.out.kind = "raise"
             THEN [out |-> pp.out, cache |-> started, trace |-> pp.trace]
             ELSE IF pp.out.url # <<>>
             THEN LET res == Residual(PathInfo(r), pp.out.url)
                  IN  [out |-> Ok(res), cache |-> [set |-> TRUE, val |-> res],
                       trace |-> pp.trace]
             ELSE [out |-> Ok(PathInfo(r)), cache |-> started, trace |-> pp.trace]

\* resolve(self.request.path_info) with every failure turned into None (utils.py:84-87)
Resolve(r) == r.view

\* hasattr(self.request, 'toolbar') and self.request.toolbar.obj  (utils.py:88)
HasToolbarObj(r) == r.toolbar = "obj"

\* the test of utils.py:94 as an if: reversal also after a toolbar failure
TriesReverse_if(r) ==
    /\ Resolve(r).found
    /\ Resolve(r).url_name \notin PageViewNames

\* the test of utils.py:94 without the two reserved view names
TriesReverse_any_view(r) ==
    /\ ~HasToolbarObj(r)
    /\ Resolve(r).found

\* the elif of utils.py:94
TriesReverse(r) ==
    /\ ~HasToolbarObj(r)
    /\ Resolve(r).found
    /\ Resolve(r).url_name \notin PageViewNames

\* view_name (utils.py:95-97)
ViewName(view) ==
    IF view.namespace # "" THEN <<view.namespace, ":", view.url_name>>
    ELSE <<view.url_name>>

\* the last line of __call__ (utils.py:104): [out, cache, trace]
PagePathPlusAppPath(r, cache, lang) ==
    LET pp == get_page_path(r, lang)
    IN  IF pp.out.kind = "raise"
        THEN [out |-> pp.out, cache |-> cache, trace |-> pp.trace]
        ELSE LET ap == AppPath(r, cache)
                 tr == pp.trace \o <<Step("app_path", LanguageCode(r))>> \o ap.trace
             IN  IF ap.out.kind = "raise"
                 THEN [out |-> ap.out, cache |-> ap.cache, trace |-> tr]
                 ELSE [out |-> Ok(pp.out.url \o ap.out.url), cache |-> ap.cache,
                       trace |-> tr]

\* __call__(lang): [out, cache, trace]
CallResult(r, cache, lang) ==
    LET view == Resolve(r)
        t0   == <<Step("resolve", r.lang)>>
        tb   == IF HasToolbarObj(r) THEN ToolbarObjUrl(r, lang) ELSE Raise("skipped")
        t1   == IF HasToolbarObj(r) THEN Append(t0, Step("toolbar", lang)) ELSE t0
        rv   == IF TriesReverse(r) THEN Reverse(r, ViewName(view), lang)
                ELSE Raise("skipped")
        t2   == IF TriesReverse(r) THEN Append(t1, Step("reverse", lang)) ELSE t1
    IN  IF HasToolbarObj(r) /\ tb.kind = "url"
        THEN [out |-> tb, cache |-> cache, trace |-> t1]
        ELSE IF TriesReverse(r) /\ rv.kind = "url"
        THEN [out |-> rv, cache |-> cache, trace |-> t2]
        ELSE LET f == PagePathPlusAppPath(r, cache, lang)
             IN  [out |-> f.out, cache |-> f.cache, trace |-> t2 \o f.trace]

NoCache == [set |-> FALSE, val |-> <<>>]

NoCall == [called |-> FALSE, lang |-> "e", out |-> Raise("none"), trace |-> <<>>]

\* DefaultLanguageChanger(request) for some request
ChangerInit ==
    /\ req \in Requests
    /\ app_path = NoCache
    /\ last = NoCall

\* changer(lang)
Call(lang) ==
    LET c == CallResult(req, app_path, lang)
    IN  /\ app_path' = c.cache
        /\ last' = [called |-> TRUE, lang |-> lang, out |-> c.out, trace |-> c.trace]
        /\ UNCHANGED <<req, treeVars, decoVars, strVars>>

\* a new DefaultLanguageChanger(request) for the same request (utils.py:51-53)
NewChanger ==
    /\ last.called
    /\ app_path' = NoCache
    /\ last' = NoCall
    /\ UNCHANGED <<req, treeVars, decoVars, strVars>>

-----------------------------------------------------------------------------
(* NavigationNode *)

MaxNodes == 4

Nodes == 1 .. MaxNodes

None == 0

Range(s) == { s[i] : i \in 1 .. Len(s) }

RECURSIVE get_descendants(_), DescendantsFrom(_, _), DescendantsFrom_post_order(_, _)

\* the loop with append and extend exchanged
DescendantsFrom_post_order(n, i) ==
    IF i > Len(children[n]) THEN <<>>
    ELSE LET node == children[n][i]
         IN  (get_descendants(node) \o <<node>>) \o DescendantsFrom(n, i + 1)

\* the for loop of get_descendants from the i-th child on (base.py:55-57)
DescendantsFrom(n, i) ==
    IF i > Len(children[n]) THEN <<>>
    ELSE LET node == children[n][i]
         IN  (<<node>> \o get_descendants(node)) \o DescendantsFrom(n, i + 1)

\* NavigationNode.get_descendants (base.py:53-58)
get_descendants(n) == DescendantsFrom(n, 1)

Idle == [pc |-> "idle", node |-> None, cur |-> None, nodes |-> <<>>]

\* NavigationNode.__init__ for every node: no parent, no children (base.py:26-27)
TreeInit ==
    /\ parent = [n \in Nodes |-> None]
    /\ children = [n \in Nodes |-> <<>>]
    /\ op = Idle

RECURSIVE IsAncestor(_, _)
\* a is n or above n
IsAncestor(a, n) ==
    IF a = n THEN TRUE
    ELSE IF parent[n] = None THEN FALSE
    ELSE IsAncestor(a, parent[n])

\* the menu registry links a parentless node c below p, keeping the tree
\* acyclic and parent and children in agreement (spec.md, section 3)
Link(p, c) ==
    /\ op.pc = "idle"
    /\ parent[c] = None
    /\ ~IsAncestor(c, p)
    /\ parent' = [parent EXCEPT ![c] = p]
    /\ children' = [children EXCEPT ![p] = Append(@, c)]
    /\ UNCHANGED <<op, changerVars, decoVars, strVars>>

\* node.get_descendants()
GetDescendants(n) ==
    /\ op.pc = "idle"
    /\ op' = [pc |-> "desc_done", node |-> n, cur |-> n, nodes |-> get_descendants(n)]
    /\ UNCHANGED <<parent, children, changerVars, decoVars, strVars>>

\* node.get_ancestors() up to the loop (base.py:66-67)
AncestorsStart(n) ==
    /\ op.pc = "idle"
    /\ op' = [pc |-> "anc_loop", node |-> n, cur |-> n, nodes |-> <<>>]
    /\ UNCHANGED <<parent, children, changerVars, decoVars, strVars>>

\* the loop appending the node it stands on before moving up
AncestorsStep_appends_current ==
    /\ op.pc = "anc_loop"
    /\ IF parent[op.cur] # None
       THEN op' = [op EXCEPT !.cur = parent[op.cur],
                             !.nodes = Append(op.nodes, op.cur)]
       ELSE op' = [op EXCEPT !.pc = "anc_done"]
    /\ UNCHANGED <<parent, children, changerVars, decoVars, strVars>>

\* one test of the while condition, and one pass of the body or the return
\* (base.py:68-71)
AncestorsStep ==
    /\ op.pc = "anc_loop"
    /\ IF parent[op.cur] # None
       THEN op' = [op EXCEPT !.cur = parent[op.cur],
                             !.nodes = Append(op.nodes, parent[op.cur])]
       ELSE op' = [op EXCEPT !.pc = "anc_done"]
    /\ UNCHANGED <<parent, children, changerVars, decoVars, strVars>>

\* the caller takes the returned list
Return ==
    /\ op.pc \in {"desc_done", "anc_done"}
    /\ op' = Idle
    /\ UNCHANGED <<parent, children, changerVars, decoVars, strVars>>

-----------------------------------------------------------------------------
(* set_language_changer and language_changer_decorator *)

MaxSets == 3

Changers == {"f", "g", "h"}

ViewArgs == {"a1", "a2"}

ViewResults == {"r1", "r2"}

\* set_language_changer keeping a changer that is already set
set_language_changer_default(current, func) == IF current = "unset" THEN func ELSE current

\* set_language_changer(request, func): the new request._language_changer
\* (utils.py:27)
set_language_changer(current, func) == func

\* _wrapped(request, *args, **kwargs) up to the call of func (utils.py:41-43):
\* the attribute as func finds it, and the arguments func is given
Wrapped(current, deco, args) ==
    [attr |-> set_language_changer(current, deco), passed |-> args]

NotCalled == [pc |-> "out", deco |-> "unset", given |-> "none", passed |-> "none",
              at_entry |-> "unset", vret |-> "none", ret |-> "none"]

\* a request on which nothing has been set
DecoInit ==
    /\ language_changer = "unset"
    /\ wrapped = NotCalled
    /\ sets = <<>>

\* set_language_changer(request, func) called outside a decorated view
SetLanguageChanger(func) ==
    /\ wrapped.pc = "out"
    /\ Len(sets) < MaxSets
    /\ language_changer' = set_language_changer(language_changer, func)
    /\ sets' = Append(sets, func)
    /\ UNCHANGED <<wrapped, changerVars, treeVars, strVars>>

\* language_changer_decorator(deco)(func)(request, args) up to func's body
WrappedCall(deco, args) ==
    /\ wrapped.pc = "out"
    /\ Len(sets) < MaxSets
    /\ LET w == Wrapped(language_changer, deco, args)
       IN  /\ language_changer' = w.attr
           /\ wrapped' = [pc |-> "body", deco |-> deco, given |-> args,
                          passed |-> w.passed, at_entry |-> w.attr,
                          vret |-> "none", ret |-> "none"]
    /\ sets' = Append(sets, deco)
    /\ UNCHANGED <<changerVars, treeVars, strVars>>

\* the body of func calls set_language_changer(request, func2)
BodySet(func) ==
    /\ wrapped.pc = "body"
    /\ Len(sets) < MaxSets
    /\ language_changer' = set_language_changer(language_changer, func)
    /\ sets' = Append(sets, func)
    /\ UNCHANGED <<wrapped, changerVars, treeVars, strVars>>

\* func returns result, and _wrapped returns what func returned (utils.py:43)
BodyReturn(result) ==
    /\ wrapped.pc = "body"
    /\ wrapped' = [wrapped EXCEPT !.pc = "out", !.vret = result, !.ret = result]
    /\ UNCHANGED <<language_changer, sets, changerVars, treeVars, strVars>>

\* the next request: a new request object
NewRequest ==
    /\ wrapped.pc = "out"
    /\ sets # <<>>
    /\ language_changer' = "unset"
    /\ wrapped' = NotCalled
    /\ sets' = <<>>
    /\ UNCHANGED <<changerVars, treeVars, strVars>>

-----------------------------------------------------------------------------
(* static_stringifier *)

MaxArgs == 1

MaxKwargs == 2

\* what a view argument can be: a class defining __unicode__ ("A", "B"), a
\* class without __unicode__ ("C"), an instance ("s")
ArgValues == {"A", "B", "C", "s"}

PatchedClasses == {"A", "B"}

\* inspect.isclass(arg)
IsClass(arg) == arg \in {"A", "B", "C"}

\* hasattr(arg, '__unicode__')
HasUnicode(arg) == arg \in PatchedClasses

SeqsUpTo(S, n) == UNION { [1 .. k -> S] : k \in 0 .. n }

\* one pass of the first two loops (utils.py:119-126, 128-135)
Patch(cl, arg) ==
    IF IsClass(arg) /\ HasUnicode(arg)
    THEN [cl EXCEPT ![arg] = [original |-> cl[arg].unicode, unicode |-> "custom_str"]]
    ELSE cl

\* one pass of the last two loops (utils.py:139-141, 143-145)
Unpatch(cl, arg) ==
    IF IsClass(arg) /\ HasUnicode(arg)
    THEN [cl EXCEPT ![arg].unicode = cl[arg].original]
    ELSE cl

RECURSIVE PatchAll(_, _, _)
\* for idx, arg in enumerate(seq) from index i on
PatchAll(cl, seq, i) ==
    IF i > Len(seq) THEN cl ELSE PatchAll(Patch(cl, seq[i]), seq, i + 1)

RECURSIVE UnpatchAll(_, _, _)
UnpatchAll(cl, seq, i) ==
    IF i > Len(seq) THEN cl ELSE UnpatchAll(Unpatch(cl, seq[i]), seq, i + 1)

\* static_stringifier up to its yield (utils.py:117-136)
BeforeYield(cl, django16, view) ==
    IF django16 THEN PatchAll(PatchAll(cl, view.args, 1), view.kwargs, 1) ELSE cl

\* static_stringifier after its yield (utils.py:137-145)
AfterYield(cl, django16, view) ==
    IF django16 THEN UnpatchAll(UnpatchAll(cl, view.args, 1), view.kwargs, 1) ELSE cl

Pristine == [c \in PatchedClasses |-> [unicode |-> c, original |-> "unset"]]

NoView == [args |-> <<>>, kwargs |-> <<>>]

\* the classes as defined, and DJANGO_1_6 as the installation has it
StrInit ==
    /\ classes = Pristine
    /\ sview = NoView
    /\ block \in [pc : {"out"}, django16 : BOOLEAN, before : {Pristine}]

\* with static_stringifier(view): entered (utils.py:99); kwargs are the values
\* of view.kwargs in the order items() yields them
Enter(args, kwargs) ==
    /\ block.pc \in {"out", "left", "raised"}
    /\ sview' = [args |-> args, kwargs |-> kwargs]
    /\ classes' = BeforeYield(classes, block.django16, sview')
    /\ block' = [block EXCEPT !.pc = "in", !.before = classes]
    /\ UNCHANGED <<changerVars, treeVars, decoVars>>

\* reverse() returns, or raises NoReverseMatch, which the body catches: the
\* block is left normally and the generator resumes after its yield
\* (utils.py:100-103)
LeaveNormally ==
    /\ block.pc = "in"
    /\ classes' = AfterYield(classes, block.django16, sview)
    /\ block' = [block EXCEPT !.pc = "left"]
    /\ UNCHANGED <<sview, changerVars, treeVars, decoVars>>

\* reverse() raises another exception: it is thrown into the generator at its
\* yield, which has no try/finally, so nothing after the yield runs
LeaveRaising ==
    /\ block.pc = "in"
    /\ block' = [block EXCEPT !.pc = "raised"]
    /\ UNCHANGED <<classes, sview, changerVars, treeVars, decoVars>>

-----------------------------------------------------------------------------
(* Specifications *)

\* no request is being served
ChangerIdle ==
    /\ req = [ USE_I18N |-> TRUE, lang |-> "e", rest |-> <<>>,
               has_page |-> FALSE, nofb |-> AllOk, fb |-> AllOk,
               hide |-> [l \in Langs |-> FALSE], toolbar |-> "absent", tb |-> AllOk,
               view |-> [found |-> FALSE, url_name |-> "", namespace |-> ""],
               rev |-> AllOk ]
    /\ app_path = NoCache
    /\ last = NoCall

StrIdle ==
    /\ classes = Pristine
    /\ sview = NoView
    /\ block = [pc |-> "out", django16 |-> TRUE, before |-> Pristine]

Init == ChangerInit /\ TreeInit /\ DecoInit /\ StrIdle

Next ==
    \/ \E lang \in Langs : Call(lang)
    \/ NewChanger

Spec == Init /\ [][Next]_vars

InitTree == ChangerIdle /\ TreeInit /\ DecoInit /\ StrIdle

NextTree ==
    \/ \E p, c \in Nodes : Link(p, c)
    \/ \E n \in Nodes : GetDescendants(n)
    \/ \E n \in Nodes : AncestorsStart(n)
    \/ AncestorsStep
    \/ Return

SpecTree == InitTree /\ [][NextTree]_vars

\* the loop of get_ancestors is not suspended: nothing else runs in the request
FairSpecTree == SpecTree /\ WF_vars(AncestorsStep)

InitDecorator == ChangerIdle /\ TreeInit /\ DecoInit /\ StrIdle

NextDecorator ==
    \/ \E func \in Changers : SetLanguageChanger(func)
    \/ \E deco \in Changers, args \in ViewArgs : WrappedCall(deco, args)
    \/ \E func \in Changers : BodySet(func)
    \/ \E result \in ViewResults : BodyReturn(result)
    \/ NewRequest

SpecDecorator == InitDecorator /\ [][NextDecorator]_vars

InitStringifier == ChangerIdle /\ TreeInit /\ DecoInit /\ StrInit

NextStringifier ==
    \/ \E args \in SeqsUpTo(ArgValues, MaxArgs), kwargs \in SeqsUpTo(ArgValues, MaxKwargs) :
          Enter(args, kwargs)
    \/ LeaveNormally
    \/ LeaveRaising

SpecStringifier == InitStringifier /\ [][NextStringifier]_vars

-----------------------------------------------------------------------------
(* Properties of DefaultLanguageChanger, checked under Spec *)

\* the toolbar object answers with a URL under lang
ToolbarYields(r, lang) == r.toolbar = "obj" /\ r.tb[lang] = "ok"

\* the matched view is one that is reversed
ReversibleView(r) ==
    r.toolbar # "obj" /\ r.view.found /\ r.view.url_name \notin PageViewNames

\* the matched view is reversed under lang and a URL is found
ReverseYields(r, lang) == ReversibleView(r) /\ r.rev[lang] = "ok"

\* neither lookup of the page in lang gives a path, and no language root replaces it
PageLookupFails(r, lang) ==
    /\ r.has_page
    /\ r.nofb[lang] # "ok"
    /\ ~(r.hide[lang] /\ r.USE_I18N)
    /\ r.fb[lang] # "ok"

StepsOf(trace) == { trace[i].step : i \in 1 .. Len(trace) }

\* the last line of __call__ was reached
PagePathUsed == StepsOf(last.trace) \cap {"page", "root"} # {}

ReverseAttempted == "reverse" \in StepsOf(last.trace)

\* C1 as stated: for a request with a current_page whose translation in the
\* target language exists with URL U, the changer returns exactly U.
C1_Original ==
    (last.called /\ req.has_page /\ req.nofb[last.lang] = "ok")
        => last.out = Ok(PageUrl(last.lang))

\* C1, amended: for such a request, when neither the toolbar object nor the
\* reversal of the matched view yields a URL first, a returned URL is U
\* followed by the residual app path (so exactly U when the residual is
\* empty), and the call raises only when the residual's own page lookup fails.
C1_TranslatedUrlPlusResidual ==
    (/\ last.called
     /\ req.has_page
     /\ req.nofb[last.lang] = "ok"
     /\ ~ToolbarYields(req, last.lang)
     /\ ~ReverseYields(req, last.lang))
        => /\ last.out.kind = "url" =>
                /\ app_path.set
                /\ last.out.url = PageUrl(last.lang) \o app_path.val
                /\ app_path.val = <<>> => last.out = Ok(PageUrl(last.lang))
           /\ last.out.kind = "raise" => PageLookupFails(req, LanguageCode(req))

\* C1 witness: the translated URL of another language than the request's,
\* followed by a residual that is not empty
C1_Witness ==
    /\ last.called
    /\ req.USE_I18N
    /\ req.has_page
    /\ req.nofb[last.lang] = "ok"
    /\ last.lang # req.lang
    /\ ~ToolbarYields(req, last.lang)
    /\ ~ReverseYields(req, last.lang)
    /\ app_path.val # <<>>
    /\ last.out = Ok(PageUrl(last.lang) \o app_path.val)

\* C2 as stated: with no translation in the target language L, a fallback URL
\* and hide_untranslated(L) active, the changer returns '/L/'.
C2_Original ==
    (/\ last.called
     /\ req.has_page
     /\ req.nofb[last.lang] # "ok"
     /\ req.fb[last.lang] = "ok"
     /\ req.hide[last.lang])
        => last.out = Ok(LangRoot(last.lang))

\* C2, amended: for such a request, when neither the toolbar object nor the
\* reversal of the matched view yields a URL first: with USE_I18N on, the page
\* is not asked for its fallback URL in L and a returned URL is '/L/' followed
\* by the residual app path (exactly '/L/' when the residual is empty); with
\* USE_I18N off, a returned URL is the fallback URL followed by the residual.
\* The call raises only when the residual's own page lookup fails.
C2_LanguageRootPlusResidual ==
    (/\ last.called
     /\ req.has_page
     /\ req.nofb[last.lang] # "ok"
     /\ req.fb[last.lang] = "ok"
     /\ req.hide[last.lang]
     /\ ~ToolbarYields(req, last.lang)
     /\ ~ReverseYields(req, last.lang))
        => /\ (req.USE_I18N /\ last.out.kind = "url") =>
                /\ app_path.set
                /\ last.out.url = LangRoot(last.lang) \o app_path.val
                /\ app_path.val = <<>> => last.out = Ok(LangRoot(last.lang))
           /\ req.USE_I18N =>
                \A i \in 1 .. Len(last.trace) :
                    last.trace[i] # Step("page_fallback", last.lang)
           /\ (~req.USE_I18N /\ last.out.kind = "url") =>
                last.out.url = FallbackUrl(last.lang) \o app_path.val
           /\ last.out.kind = "raise" => PageLookupFails(req, LanguageCode(req))

\* C2 witness: the language root alone is returned although a fallback URL exists
C2_Witness ==
    /\ last.called
    /\ req.has_page
    /\ req.nofb[last.lang] # "ok"
    /\ req.fb[last.lang] = "ok"
    /\ req.hide[last.lang]
    /\ req.USE_I18N
    /\ last.lang # req.lang
    /\ last.out = Ok(LangRoot(last.lang))

\* C3: a Title.DoesNotExist or NoReverseMatch raised by a URL-resolution step
\* (the page lookup with fallback included) never reaches the caller: every
\* call returns a URL.
C3_NeverPropagates ==
    last.called =>
        /\ last.out.exc \notin {"DoesNotExist", "NoReverseMatch"}
        /\ last.out.kind = "url"

\* C6 as stated, for a request without a toolbar object: the matched view is
\* reversed only when the request has no current_page, never for the two
\* reserved view names, and in every other case the result comes from the
\* page-path strategy.
C6_Original ==
    (last.called /\ req.toolbar # "obj") =>
        /\ ReverseAttempted =>
              (~req.has_page /\ req.view.url_name \notin PageViewNames)
        /\ ~ReverseAttempted => PagePathUsed

\* C6, amended: the matched view is reversed, once and under the target
\* language, exactly when the toolbar carries no object and the path resolves
\* to a view whose url_name is neither 'pages-details-by-slug' nor
\* 'pages-root', whether or not the request has a current_page; the
\* page-path strategy is used exactly when neither the toolbar object nor the
\* reversal yields a URL, and those two return their own URL.
C6_ReverseExactlyForOtherViews ==
    last.called =>
        /\ ReverseAttempted <=> ReversibleView(req)
        /\ \A i \in 1 .. Len(last.trace) :
              last.trace[i].step = "reverse" =>
                  /\ last.trace[i].lang = last.lang
                  /\ \A j \in 1 .. Len(last.trace) :
                        last.trace[j].step = "reverse" => j = i
        /\ PagePathUsed <=>
              ~(ToolbarYields(req, last.lang) \/ ReverseYields(req, last.lang))
        /\ ReverseYields(req, last.lang) => last.out = Ok(ReverseUrl(last.lang))
        /\ ToolbarYields(req, last.lang) => last.out = Ok(ToolbarUrl(last.lang))

\* C6 witness: a request with a current_page whose matched view is reversed
C6_Witness ==
    /\ last.called
    /\ req.USE_I18N
    /\ req.has_page
    /\ ReverseAttempted
    /\ last.lang # req.lang
    /\ last.out = Ok(ReverseUrl(last.lang))

\* C7, for USE_I18N on, where language_code is the request's language, and a
\* page translated into that language: when the last line of __call__
\* returns, the result is get_page_path(L) followed by what follows the page
\* path of the request's language in path_info, that page path being at the
\* front of path_info.
C7_ResidualFollowsPagePath ==
    (/\ last.called
     /\ req.USE_I18N
     /\ req.has_page
     /\ req.nofb[req.lang] = "ok"
     /\ PagePathUsed
     /\ last.out.kind = "url")
        => \E k \in 0 .. Len(PathInfo(req)) :
              /\ SubSeq(PathInfo(req), 1, k) = get_page_path(req, req.lang).out.url
              /\ last.out.url = get_page_path(req, last.lang).out.url
                                    \o SubSeq(PathInfo(req), k + 1, Len(PathInfo(req)))

\* C10: with a toolbar object, its URL under the target language is returned
\* and no page or view strategy runs; if it raises, no view is reversed, even
\* a reversible one, and the result is get_page_path(L) + app_path.
C10_ToolbarFirst ==
    (last.called /\ req.toolbar = "obj")
        => /\ req.tb[last.lang] = "ok" =>
                /\ last.out = Ok(ToolbarUrl(last.lang))
                /\ last.trace = <<Step("resolve", req.lang), Step("toolbar", last.lang)>>
           /\ req.tb[last.lang] # "ok" =>
                /\ ~ReverseAttempted
                /\ PagePathUsed
                /\ last.out.kind = "url" =>
                      /\ app_path.set
                      /\ last.out.url = get_page_path(req, last.lang).out.url
                                            \o app_path.val
                /\ last.out.kind = "raise" =>
                      \/ PageLookupFails(req, last.lang)
                      \/ PageLookupFails(req, LanguageCode(req))

\* C10 witness: the toolbar object raises, the matched view could be reversed,
\* and the page path is returned
C10_Witness ==
    /\ last.called
    /\ req.USE_I18N
    /\ req.toolbar = "obj"
    /\ req.tb[last.lang] # "ok"
    /\ req.view.found
    /\ req.view.url_name = "app"
    /\ req.rev[last.lang] = "ok"
    /\ last.lang # req.lang
    /\ last.out.kind = "url"
    /\ last.out.url # ReverseUrl(last.lang)

-----------------------------------------------------------------------------
(* Properties of NavigationNode, checked under SpecTree and FairSpecTree *)

\* the nodes below n, by their parent references
Subtree(n) == { m \in Nodes : m # n /\ IsAncestor(n, m) }

Pos(s, x) == CHOOSE i \in 1 .. Len(s) : s[i] = x

\* C4: get_descendants() returns every node of the subtree below the node
\* exactly once, without the node, each node immediately followed by its own
\* descendants and children in list order; on a root, all other nodes of its tree.
C4_DescendantsPreOrder ==
    op.pc = "desc_done" =>
        LET s == op.nodes
            n == op.node
        IN  /\ Range(s) = Subtree(n)
            /\ Len(s) = Cardinality(Subtree(n))
            /\ n \notin Range(s)
            /\ \A i \in 1 .. Len(s) :
                  LET size == Cardinality(Subtree(s[i]))
                  IN  /\ i + size <= Len(s)
                      /\ Range(SubSeq(s, i + 1, i + size)) = Subtree(s[i])
            /\ \A m \in {n} \cup Range(s) :
                  /\ \A j \in 1 .. Len(children[m]) - 1 :
                        Pos(s, children[m][j]) < Pos(s, children[m][j + 1])
                  /\ children[m] # <<>> =>
                        children[m][1] = s[IF m = n THEN 1 ELSE Pos(s, m) + 1]
            /\ parent[n] = None =>
                  Len(s) = Cardinality({ m \in Nodes : IsAncestor(n, m) }) - 1

\* C4 witness: a result over a branching subtree of depth two
C4_Witness ==
    /\ op.pc = "desc_done"
    /\ Len(op.nodes) >= 3
    /\ Len(children[op.node]) >= 2
    /\ children[children[op.node][1]] # <<>>

\* C5: get_ancestors() terminates, and returns parent, grandparent, ... up
\* to the root, nearest first, without the node; nothing for a root.
C5_AncestorsChain ==
    /\ [](op.pc = "anc_done" =>
            LET s == op.nodes
                n == op.node
            IN  /\ (s = <<>>) <=> (parent[n] = None)
                /\ \A i \in 1 .. Len(s) :
                      s[i] = parent[IF i = 1 THEN n ELSE s[i - 1]]
                /\ s # <<>> => parent[s[Len(s)]] = None
                /\ n \notin Range(s))
    /\ [](op.pc = "anc_loop" => <>(op.pc = "anc_done"))

\* C5 witness: the ancestors of a node two levels below its root
C5_Witness ==
    /\ op.pc = "anc_done"
    /\ Len(op.nodes) >= 2

-----------------------------------------------------------------------------
(* Properties of language_changer_decorator, checked under SpecDecorator *)

\* C8: a decorated view finds the decorator's changer on the request when its
\* body starts, is given the arguments of the call, and its result is what the
\* call returns; the stored changer is always the one set last.
C8_DecoratorSetsThenCalls ==
    /\ wrapped.pc = "body" =>
          /\ wrapped.at_entry = wrapped.deco
          /\ wrapped.passed = wrapped.given
    /\ (wrapped.pc = "out" /\ wrapped.deco # "unset") =>
          /\ wrapped.ret = wrapped.vret
          /\ wrapped.passed = wrapped.given
    /\ sets # <<>> => language_changer = sets[Len(sets)]

\* C8 witness: the view body has replaced the changer the decorator set
C8_Witness ==
    /\ wrapped.pc = "out"
    /\ wrapped.deco # "unset"
    /\ wrapped.ret # "none"
    /\ Len(sets) >= 2
    /\ language_changer # wrapped.deco
    /\ sets[Len(sets) - 1] = wrapped.deco

-----------------------------------------------------------------------------
(* Property of static_stringifier, checked under SpecStringifier *)

\* the classes with __unicode__ among the view's args and kwargs
PatchedBy(view) == (Range(view.args) \cup Range(view.kwargs)) \cap PatchedClasses

\* C9: under DJANGO_1_6, once the with block is left, by return or by an
\* exception, every patched class has the __unicode__ it had on entry.
C9_UnicodeRestored ==
    (block.django16 /\ block.pc \in {"left", "raised"}) =>
        \A c \in PatchedBy(sview) : classes[c].unicode = block.before[c].unicode

====
